---- MODULE Spec2Model ----
(***************************************************************************)
(* Socket based JSON-RPC message channel layer of theia:                   *)
(*   WebSocketMessageReader, WebSocketMessageWriter                        *)
(*     (packages/core/src/common/messaging/socket-message-handlers.ts)     *)
(*   createConnection (same file, second half)                             *)
(*   createWebSocketConnection (packages/core/src/node/messaging/launch.ts)*)
(*                                                                         *)
(* One socket, the reader and the writer built on it and the connection    *)
(* that pairs them.  Every handler runs to completion (single threaded     *)
(* event loop), so every action is one whole handler invocation.           *)
(*                                                                         *)
(* Representation of JavaScript values                                     *)
(*   wire texts       strings; "" is the empty text frame, "x" a text that *)
(*                    is not JSON                                          *)
(*   decoded messages integers (JSON.parse("1") = 1)                       *)
(*   error values     integers; 0 stands for a falsy reason value, the     *)
(*                    Error object built from a close code is represented  *)
(*                    by that code                                         *)
(*   callbacks        strings; "undefined" is the absent callback          *)
(*                                                                         *)
(* Beside it, functions of other files of the repository, each with        *)
(* variables and a specification of its own:                               *)
(*   sortedDiff (arrays utilities)                                         *)
(*   PackageReExport.getReExported (package re-exports)                    *)
(*   DebugConfigurationManager (current and recently used options)         *)
(***************************************************************************)
EXTENDS Integers, Sequences, FiniteSets, TLC

VARIABLES
    state,           \* WebSocketMessageReader.state
    callback,        \* WebSocketMessageReader.callback
    events,          \* WebSocketMessageReader.events, events[1] is index 0
    errorCount,      \* WebSocketMessageWriter.errorCount
    disposeOnClose,  \* createConnection: the DisposableCollection, oldest first
    handles,         \* callbacks for which listen returned a Disposable
    closeListeners,  \* listeners PluginWebSocketChannel added to reader.onClose
    threw,           \* exception that left the last handler ("none" if none)
    trace,           \* history: every input and every callback invocation
    before,          \* sortedDiff: parameter before
    after,           \* sortedDiff: parameter after
    compare,         \* sortedDiff: parameter compare
    result,          \* sortedDiff: the array result
    returned,        \* sortedDiff: whether the call has returned
    reExportPrefix,  \* PackageReExport.reExportPrefix
    moduleName,      \* getReExported: parameter moduleName
    reExported,      \* getReExported: the value returned
    reExportDone,    \* getReExported: whether the call has returned
    currentOptions,                     \* DebugConfigurationManager._currentOptions
    recentDynamicOptionsTracker,        \* oldest first
    loadingDataCache,                   \* DebugConfigurationManager.loadingDataCache
    initialCurrentHasChanged,           \* DebugConfigurationManager.initialCurrentHasChanged
    dynamicDebugConfigurationsPerType,  \* undefined until the providers answer
    storage,         \* StorageService: the data under 'debug.configurations'
    loading,         \* whether load() has been called and has not completed
    recency,         \* history: the dynamic options assigned to current,
                     \* each once, the most recently assigned last; a
                     \* new manager starts from those the stored data keeps
    onDidChangeFired, \* history: whether the last operation fired onDidChange
    spliced,         \* history: whether the last operation removed an entry
                     \* of the recently used list to add it again
    shifted,         \* history: the entry that the last operation shifted
                     \* out of the full list (NoOption if none)
    assigned         \* history: what the last operation assigned to current
                     \* last: "undefined", a "non-dynamic" or a "dynamic"
                     \* option, "nothing" if it made no assignment

socketVars == <<state, callback, events, errorCount, disposeOnClose, handles,
                closeListeners, threw, trace>>
arrayVars == <<before, after, compare, result, returned>>
reExportVars == <<reExportPrefix, moduleName, reExported, reExportDone>>
debugVars == <<currentOptions, recentDynamicOptionsTracker, loadingDataCache,
               initialCurrentHasChanged, dynamicDebugConfigurationsPerType,
               storage, loading, recency, onDidChangeFired, spliced,
               shifted, assigned>>
vars == <<socketVars, arrayVars, reExportVars, debugVars>>

----------------------------------------------------------------------------
(* Bounds of the model *)

MaxInputs == 5          \* operations and socket events in a run
MaxLen == 3             \* length of an array given to sortedDiff
MaxName == 4            \* length of a module name given to getReExported

(* Program constant: the normal closure code *)
NormalClosure == 1000

----------------------------------------------------------------------------
(* Input domains *)

Texts == {"1", "2", "", "x"}        \* payloads of socket message events
SockErrors == {0, 7}                \* reasons of socket error events
CloseCodes == {NormalClosure, 1006} \* codes of socket close events
Callbacks == {"cb1", "cb2"}         \* DataCallbacks given to listen
CloseCallbacks == {"k1", "k2"}      \* callbacks given to Connection.onClose
Messages == {1, 2, 3}               \* messages given to write; 3 stands for a
                                    \* value JSON.stringify rejects (a cycle)
NoCallback == "undefined"

(* PluginMessage: { jsonrpc: '0.0', content: string }, and its JSON text.  *)
(* JSON.stringify escapes a quote inside a string with a backslash.        *)
Contents == {"", "a\"b"}            \* strings given to channel.send
Versions == {"0.0", "2.0"}
ChannelCloseCode == -1
Envelope(jsonrpc, content) == [jsonrpc |-> jsonrpc, content |-> content]
Envelopes == {Envelope(v, c) : v \in Versions, c \in Contents}
Escape(str) == CASE str = "a\"b" -> "a\\\"b" [] OTHER -> str
StringifyEnvelope(message) ==
    "{\"jsonrpc\":\"" \o Escape(message.jsonrpc) \o "\",\"content\":\""
        \o Escape(message.content) \o "\"}"
IsEnvelopeText(text) == \E m \in Envelopes : StringifyEnvelope(m) = text
ParseEnvelope(text) == CHOOSE m \in Envelopes : StringifyEnvelope(m) = text

(* JSON.parse: defined on JSON texts only, throws SyntaxError otherwise *)
CanParse(text) == text \in {"1", "2"} \/ IsEnvelopeText(text)
JSONparse(text) ==
    CASE text = "1" -> 1 [] text = "2" -> 2 [] OTHER -> ParseEnvelope(text)

(* JSON.stringify: throws TypeError on a cyclic value *)
CanStringify(msg) == msg \in {1, 2}
JSONstringify(msg) == CASE msg = 1 -> "1" [] msg = 2 -> "2"

(* JavaScript truthiness of a string and of an error value *)
TruthyString(s) == s # ""
TruthyError(e) == e # 0

----------------------------------------------------------------------------
(* History entries.  src is the position in trace of the socket event      *)
(* whose handling (live or replayed) produced the entry, 0 for inputs.     *)

Entry(kind, cb, value, text, src) ==
    [kind |-> kind, cb |-> cb, value |-> value, text |-> text, msg |-> 0,
     src |-> src]

Input(kind, cb, value, text) == Entry(kind, cb, value, text, 0)

Emit(w, kind, cb, value) ==
    [w EXCEPT !.trace = Append(@, Entry(kind, cb, value, "", w.src))]

Throw(w, name) == [w EXCEPT !.threw = name]

(* socket.send(content) and the writer's error event [error, message, count] *)
EmitSend(w, content) ==
    [w EXCEPT !.trace = Append(@, Entry("send", "-", 0, content, w.src))]
EmitWriteError(w, error, msg, count) ==
    [w EXCEPT !.trace = Append(@,
        [Entry("writeError", "-", count, error, w.src) EXCEPT !.msg = msg])]

----------------------------------------------------------------------------
(* Elements of WebSocketMessageReader.events: { message?, error? }          *)
(* has is the set of properties the object literal was built with.          *)

MessageEvent(message, src) ==
    [has |-> {"message"}, message |-> message, error |-> 0, src |-> src]
ErrorEvent(error, src) ==
    [has |-> {"error"}, message |-> "", error |-> error, src |-> src]
CloseEvent(src) ==
    [has |-> {}, message |-> "", error |-> 0, src |-> src]

(* if (event.message) / else if (event.error) *)
EventMessageTruthy(event) == "message" \in event.has /\ TruthyString(event.message)
EventErrorTruthy(event) == "error" \in event.has /\ TruthyError(event.error)

(* events.splice(0, 0, e) *)
SpliceFront(w, e) == [w EXCEPT !.events = <<e>> \o @]

----------------------------------------------------------------------------
(* createConnection: the disposal group *)

RECURSIVE DisposePop(_)
(* DisposableCollection.dispose(): pops and disposes every element; the     *)
(* element made by Disposable.create(callback) runs callback.               *)
DisposePop(w) ==
    IF w.disposeOnClose = <<>> THEN w
    ELSE LET n == Len(w.disposeOnClose)
             k == w.disposeOnClose[n]
             w1 == [w EXCEPT !.disposeOnClose = SubSeq(@, 1, n - 1)]
         IN DisposePop(Emit(w1, "connClose", k, 0))

(* a faulty variant of the close listeners: runs the callbacks, keeps them *)
RECURSIVE RunCallbacks(_, _)
RunCallbacks(w, n) ==
    IF n = 0 THEN w
    ELSE RunCallbacks(Emit(w, "connClose", w.disposeOnClose[n], 0), n - 1)

OnReaderOrWriterClose_keep(w) == RunCallbacks(w, Len(w.disposeOnClose))

(* reader.onClose(() => disposeOnClose.dispose());                          *)
(* writer.onClose(() => disposeOnClose.dispose());                          *)
OnReaderOrWriterClose(w) == DisposePop(w)

----------------------------------------------------------------------------
(* WebSocketMessageWriter *)

(* AbstractMessageWriter.fireError(error, message, count) *)
writerFireError(w, error, msg, count) == EmitWriteError(w, error, msg, count)

(* a faulty variant of write: the exception is reported and thrown again *)
write_rethrow(w, msg, sendThrows) ==
    IF ~CanStringify(msg)
    THEN LET w1 == [w EXCEPT !.errorCount = @ + 1]
         IN Throw(writerFireError(w1, "TypeError", msg, w1.errorCount),
                  "TypeError")
    ELSE IF sendThrows
    THEN LET w1 == [w EXCEPT !.errorCount = @ + 1]
         IN Throw(writerFireError(w1, "SendError", msg, w1.errorCount),
                  "SendError")
    ELSE EmitSend(w, JSONstringify(msg))

(* a faulty variant of write: reports the count, then increments it *)
write_countAfter(w, msg, sendThrows) ==
    IF ~CanStringify(msg)
    THEN [writerFireError(w, "TypeError", msg, w.errorCount)
             EXCEPT !.errorCount = @ + 1]
    ELSE IF sendThrows
    THEN [writerFireError(w, "SendError", msg, w.errorCount)
             EXCEPT !.errorCount = @ + 1]
    ELSE EmitSend(w, JSONstringify(msg))

(* a faulty variant of write: a successful write starts the count again *)
write_resetOnSuccess(w, msg, sendThrows) ==
    IF ~CanStringify(msg)
    THEN LET w1 == [w EXCEPT !.errorCount = @ + 1]
         IN writerFireError(w1, "TypeError", msg, w1.errorCount)
    ELSE IF sendThrows
    THEN LET w1 == [w EXCEPT !.errorCount = @ + 1]
         IN writerFireError(w1, "SendError", msg, w1.errorCount)
    ELSE [EmitSend(w, JSONstringify(msg)) EXCEPT !.errorCount = 0]

(* a faulty variant of write: a failed send also closes the connection *)
write_closeOnError(w, msg, sendThrows) ==
    IF ~CanStringify(msg)
    THEN LET w1 == [w EXCEPT !.errorCount = @ + 1]
         IN writerFireError(w1, "TypeError", msg, w1.errorCount)
    ELSE IF sendThrows
    THEN LET w1 == [w EXCEPT !.errorCount = @ + 1]
         IN OnReaderOrWriterClose(
                Emit(writerFireError(w1, "SendError", msg, w1.errorCount),
                     "socketDispose", "-", 0))
    ELSE EmitSend(w, JSONstringify(msg))

(* write(msg); sendThrows tells whether socket.send throws on this call *)
write(w, msg, sendThrows) ==
    IF ~CanStringify(msg)
    THEN LET w1 == [w EXCEPT !.errorCount = @ + 1]
         IN writerFireError(w1, "TypeError", msg, w1.errorCount)
    ELSE IF sendThrows
    THEN LET w1 == [w EXCEPT !.errorCount = @ + 1]
         IN writerFireError(w1, "SendError", msg, w1.errorCount)
    ELSE EmitSend(w, JSONstringify(msg))

(* PluginMessageWriter.write(message) for a PluginMessage, after 4.2 of the *)
(* specification: encode, send, and on an exception count and report it.    *)
(* The entry pluginWrite is the call as the writer receives it.             *)
pluginWrite(w, message, sendThrows) ==
    LET w0 == [w EXCEPT !.trace = Append(@,
                  [Entry("pluginWrite", "-", 0, "", w.src) EXCEPT !.msg = message])]
    IN IF sendThrows
       THEN LET w1 == [w0 EXCEPT !.errorCount = @ + 1]
            IN writerFireError(w1, "SendError", message, w1.errorCount)
       ELSE EmitSend(w0, StringifyEnvelope(message))

(* a faulty variant of channelSend: the envelope says it is JSON-RPC 2.0 *)
channelSend_version2(w, content, sendThrows) ==
    pluginWrite(w, Envelope("2.0", content), sendThrows)

(* PluginWebSocketChannel.send(content) *)
channelSend(w, content, sendThrows) ==
    pluginWrite(w, Envelope("0.0", content), sendThrows)

(* the listeners PluginWebSocketChannel gives to reader.listen and to       *)
(* reader.onClose, named after the cb they wrap                             *)
ChannelCallbacks == {"data1"}
ChannelCloseCallbacks == {"closed1", "closed2"}

(* (message: PluginMessage) => cb(message.content) *)
channelListener(w, cb, message) ==
    [w EXCEPT !.trace = Append(@,
        Entry("channelMessage", cb, 0, message.content, w.src))]

(* a faulty variant of channelCloseListener: the code of the socket is kept *)
channelCloseListener_passCode(w, cb) ==
    [w EXCEPT !.trace = Append(@,
        Entry("channelClose", cb, w.trace[w.src].value, "closed", w.src))]

(* () => cb(-1, 'closed') *)
channelCloseListener(w, cb) ==
    [w EXCEPT !.trace = Append(@,
        Entry("channelClose", cb, ChannelCloseCode, "closed", w.src))]

(* the close emitter of the reader calls its listeners, oldest first *)
RECURSIVE FireCloseListeners(_, _)
FireCloseListeners(w, n) ==
    IF n > Len(w.closeListeners) THEN w
    ELSE FireCloseListeners(channelCloseListener(w, w.closeListeners[n]), n + 1)

----------------------------------------------------------------------------
(* WebSocketMessageReader *)

(* AbstractMessageReader.fireError / fireClose: notify the subscribers *)
superFireError(w, error) == Emit(w, "error", "-", error)
superFireClose(w) ==
    FireCloseListeners(OnReaderOrWriterClose(Emit(w, "close", "-", 0)), 1)

(* forward(to, map): the callbacks that forward gives to reader.listen, one *)
(* made with the default map and one made with a map of the caller         *)
ForwardCallbacks == {"forward", "forwardMap"}

(* the default map, message => message, and a map given by the caller *)
MapFn(message) == message + 1
Map(cb, message) == IF cb = "forwardMap" THEN MapFn(message) ELSE message

(* the call to.writer.write(output) as the target writer receives it *)
EmitTargetWrite(w, output) ==
    [w EXCEPT !.trace = Append(@, Entry("targetWrite", "-", output, "", w.src))]

(* a faulty variant of forwardCallback: the input is written, not the output *)
forwardCallback_noMap(w, cb, input) ==
    write(EmitTargetWrite(w, input), input, w.sendThrows)

(* input => { const output = map(input); to.writer.write(output); }        *)
(* the writer is the one of the target and w.sendThrows the state of the   *)
(* target's socket while this handler runs                                 *)
forwardCallback(w, cb, input) ==
    LET output == Map(cb, input)
    IN write(EmitTargetWrite(w, output), output, w.sendThrows)

(* this.callback!(data) with a callback that is set *)
Call(w, data) ==
    LET w1 == Emit(w, "message", w.callback, data)
    IN IF w.callback \in ForwardCallbacks
       THEN forwardCallback(w1, w.callback, data)
       ELSE IF w.callback \in ChannelCallbacks
       THEN channelListener(w1, w.callback, data)
       ELSE w1

(* a faulty variant of readMessage: delivers whenever not initial *)
readMessage_noStateCheck(w, message) ==
    IF w.state = "initial" THEN SpliceFront(w, MessageEvent(message, w.src))
    ELSE IF ~CanParse(message) THEN Throw(w, "SyntaxError")
    ELSE IF w.callback = NoCallback THEN Throw(w, "TypeError")
    ELSE Call(w, JSONparse(message))

(* a faulty variant of readMessage: queues again when no callback is left *)
readMessage_rebuffer(w, message) ==
    IF w.state = "initial" \/ w.callback = NoCallback
    THEN SpliceFront(w, MessageEvent(message, w.src))
    ELSE IF w.state = "listening" THEN
        IF ~CanParse(message) THEN Throw(w, "SyntaxError")
        ELSE Call(w, JSONparse(message))
    ELSE w

readMessage(w, message) ==
    IF w.state = "initial" THEN SpliceFront(w, MessageEvent(message, w.src))
    ELSE IF w.state = "listening" THEN
        IF ~CanParse(message) THEN Throw(w, "SyntaxError")
        ELSE IF w.callback = NoCallback THEN Throw(w, "TypeError")
        ELSE Call(w, JSONparse(message))
    ELSE w

fireError(w, error) ==
    IF w.state = "initial" THEN SpliceFront(w, ErrorEvent(error, w.src))
    ELSE IF w.state = "listening" THEN superFireError(w, error)
    ELSE w

(* a faulty variant of fireClose: a listening reader stays listening *)
fireClose_stayOpen(w) ==
    IF w.state = "initial"
    THEN [SpliceFront(w, CloseEvent(w.src)) EXCEPT !.state = "closed"]
    ELSE IF w.state = "listening" THEN superFireClose(w)
    ELSE w

(* a faulty variant of fireClose: a reader that queued the close stays *)
(* in state initial                                                    *)
fireClose_initialStaysOpen(w) ==
    IF w.state = "initial" THEN SpliceFront(w, CloseEvent(w.src))
    ELSE IF w.state = "listening"
    THEN [superFireClose(w) EXCEPT !.state = "closed"]
    ELSE w

fireClose(w) ==
    LET w1 == IF w.state = "initial" THEN SpliceFront(w, CloseEvent(w.src))
              ELSE IF w.state = "listening" THEN superFireClose(w)
              ELSE w
    IN [w1 EXCEPT !.state = "closed"]

(* one pass of the while loop of listen *)
Dispatch(w, event) ==
    LET w0 == [w EXCEPT !.src = event.src]
    IN IF EventMessageTruthy(event) THEN readMessage(w0, event.message)
       ELSE IF EventErrorTruthy(event) THEN fireError(w0, event.error)
       ELSE fireClose(w0)

RECURSIVE Replay_shift(_)
(* a faulty variant of the loop: reads the last element, removes the first *)
Replay_shift(w) ==
    IF w.events = <<>> THEN w
    ELSE LET event == w.events[Len(w.events)]
             w1 == Dispatch([w EXCEPT !.events = Tail(@)], event)
         IN IF w1.threw # "none" THEN w1 ELSE Replay_shift(w1)

RECURSIVE Replay(_)
(* while (events.length !== 0) { const event = events.pop()!; ... } *)
Replay(w) ==
    IF w.events = <<>> THEN w
    ELSE LET n == Len(w.events)
             event == w.events[n]
             w1 == Dispatch([w EXCEPT !.events = SubSeq(@, 1, n - 1)], event)
         IN IF w1.threw # "none" THEN w1 ELSE Replay(w1)

(* a faulty variant of listen: no test of the state *)
listen_noGuard(w, cb) ==
    Replay([w EXCEPT !.state = "listening", !.callback = cb])

(* a faulty variant of listen: a later listen replaces the callback *)
listen_lastWins(w, cb) ==
    IF w.state = "initial"
    THEN Replay([w EXCEPT !.state = "listening", !.callback = cb])
    ELSE IF w.state = "listening" THEN [w EXCEPT !.callback = cb]
    ELSE w

listen(w, cb) ==
    IF w.state = "initial"
    THEN Replay([w EXCEPT !.state = "listening", !.callback = cb])
    ELSE w

(* a faulty variant of the dispose below: the callback stays *)
disposeListener_keep(w, cb) == w

(* forward(to, map): reader.listen(callback); nothing is returned *)
forward(w, cb) == listen(w, cb)

(* PluginMessageReader.listen, after 4.1 of the specification: the reader *)
pluginListen(w, cb) == listen(w, cb)

(* PluginWebSocketChannel.onMessage(cb) *)
channelOnMessage(w, cb) == pluginListen(w, cb)

(* PluginWebSocketChannel.onClose(cb): reader.onClose(listener) *)
channelOnClose(w, cb) == [w EXCEPT !.closeListeners = Append(@, cb)]

(* a faulty variant of the dispose below: clears whatever callback is set *)
disposeListener_clearAny(w, cb) == [w EXCEPT !.callback = NoCallback]

(* the dispose of the Disposable returned by listen(cb) *)
disposeListener(w, cb) ==
    IF w.callback = cb THEN [w EXCEPT !.callback = NoCallback] ELSE w

(* the Error object of the close listener, represented by its code *)
CloseError(code, reason) == code

(* a faulty variant of the close listener: fireClose before fireError *)
onSocketClose_swapped(w, code, reason) ==
    LET w1 == fireClose(w)
    IN IF code # NormalClosure THEN fireError(w1, CloseError(code, reason)) ELSE w1

(* the listeners the constructor gives to the socket *)
onSocketMessage(w, message) == readMessage(w, message)
onSocketError(w, error) == fireError(w, error)
onSocketClose(w, code, reason) ==
    LET w1 == IF code # NormalClosure
              THEN fireError(w, CloseError(code, reason))
              ELSE w
    IN fireClose(w1)

----------------------------------------------------------------------------
(* createConnection and createWebSocketConnection *)

(* onClose(callback): disposeOnClose.push(Disposable.create(callback)) *)
onClose(w, k) == [w EXCEPT !.disposeOnClose = Append(@, k)]

(* dispose() of the Disposable that onClose(callback) returned *)
removeOnClose(w, k) ==
    [w EXCEPT !.disposeOnClose = SelectSeq(@, LAMBDA x : x # k)]

(* the listener given to writer.onClose *)
onWriterClose(w) == OnReaderOrWriterClose(w)

(* a faulty variant of dispose: the close group is disposed as well *)
connectionDispose_fireClose(w) ==
    OnReaderOrWriterClose(Emit(w, "socketDispose", "-", 0))

(* dispose: () => onDispose(), with onDispose = () => socket.dispose() *)
connectionDispose(w) == Emit(w, "socketDispose", "-", 0)

----------------------------------------------------------------------------
(* sortedDiff(before, after, compare) of the arrays utilities.  Arrays are  *)
(* sequences, an index i of the code is position i + 1.                     *)

(* elements, and the compare functions a caller may give: by value, or by   *)
(* a key that two different elements can share (0 and 1, 2 and 3)           *)
Elements == 0..3
Compares == {"value", "key"}
Key(a) == a \div 2
Compare(cmp, a, b) == IF cmp = "value" THEN a - b ELSE Key(a) - Key(b)
Sorted(arr, cmp) ==
    \A i, j \in 1..Len(arr) : i < j => Compare(cmp, arr[i], arr[j]) <= 0
Arrays == UNION {[1..n -> Elements] : n \in 0..MaxLen}

MakeSplice(start, deleteCount, toInsert) ==
    [start |-> start, deleteCount |-> deleteCount, toInsert |-> toInsert]

(* a faulty variant of pushSplice: a merge forgets the deleted elements *)
pushSplice_dropDelete(res, start, deleteCount, toInsert) ==
    IF deleteCount = 0 /\ toInsert = <<>> THEN res
    ELSE IF res # <<>>
            /\ res[Len(res)].start + res[Len(res)].deleteCount = start
    THEN [res EXCEPT ![Len(res)].toInsert = @ \o toInsert]
    ELSE Append(res, MakeSplice(start, deleteCount, toInsert))

(* a faulty variant of pushSplice: a splice that touches the latest one is *)
(* pushed as a splice of its own                                           *)
pushSplice_noMerge(res, start, deleteCount, toInsert) ==
    IF deleteCount = 0 /\ toInsert = <<>> THEN res
    ELSE Append(res, MakeSplice(start, deleteCount, toInsert))

(* function pushSplice(start, deleteCount, toInsert), on the array result *)
pushSplice(res, start, deleteCount, toInsert) ==
    IF deleteCount = 0 /\ toInsert = <<>> THEN res
    ELSE IF res # <<>>
            /\ res[Len(res)].start + res[Len(res)].deleteCount = start
    THEN [res EXCEPT ![Len(res)].deleteCount = @ + deleteCount,
                     ![Len(res)].toInsert = @ \o toInsert]
    ELSE Append(res, MakeSplice(start, deleteCount, toInsert))

(* the while (true) loop *)
RECURSIVE sortedDiffLoop(_, _, _, _, _, _)
sortedDiffLoop(bef, aft, cmp, beforeIdx, afterIdx, res) ==
    IF beforeIdx = Len(bef)
    THEN pushSplice(res, beforeIdx, 0, SubSeq(aft, afterIdx + 1, Len(aft)))
    ELSE IF afterIdx = Len(aft)
    THEN pushSplice(res, beforeIdx, Len(bef) - beforeIdx, <<>>)
    ELSE LET beforeElement == bef[beforeIdx + 1]
             afterElement == aft[afterIdx + 1]
             n == Compare(cmp, beforeElement, afterElement)
         IN IF n = 0
            THEN sortedDiffLoop(bef, aft, cmp, beforeIdx + 1, afterIdx + 1, res)
            ELSE IF n < 0
            THEN sortedDiffLoop(bef, aft, cmp, beforeIdx + 1, afterIdx,
                                pushSplice(res, beforeIdx, 1, <<>>))
            ELSE sortedDiffLoop(bef, aft, cmp, beforeIdx, afterIdx + 1,
                                pushSplice(res, beforeIdx, 0, <<afterElement>>))

sortedDiff(bef, aft, cmp) == sortedDiffLoop(bef, aft, cmp, 0, 0, <<>>)

----------------------------------------------------------------------------
(* PackageReExport.getReExported.  A string is the sequence of its         *)
(* characters; the value returned is a string or undefined.                *)

Chars == {"s", "/", "a"}
ModuleNames == UNION {[1..n -> Chars] : n \in 0..MaxName}
Prefixes == {<<"s">>, <<"s", "/">>}    \* reExportPrefix as the caller gives it
Defined(str) == [defined |-> TRUE, value |-> str]
Undefined == [defined |-> FALSE, value |-> <<>>]

(* String.prototype.startsWith and String.prototype.substr(from) *)
startsWith(str, prefix) ==
    Len(prefix) <= Len(str) /\ SubSeq(str, 1, Len(prefix)) = prefix
substr(str, from) == SubSeq(str, from + 1, Len(str))

getReExported(prefix, name) ==
    IF startsWith(name, prefix)
    THEN LET shared == substr(name, Len(prefix))
         IN IF Len(shared) > 0 THEN Defined(shared) ELSE Undefined
    ELSE Undefined

----------------------------------------------------------------------------
(* DebugConfigurationManager.  A DebugSessionOptions is the record of its  *)
(* configuration name, workspaceFolderUri and providerType; "undefined"    *)
(* is an absent field and NoOption an absent option.  The manager is       *)
(* taken from the moment `initialized` has resolved, with one model for    *)
(* the one workspace folder.                                               *)

MaxRecent == 3
absent == "undefined"
Option(name, workspaceFolderUri, providerType) ==
    [name |-> name, workspaceFolderUri |-> workspaceFolderUri,
     providerType |-> providerType]
NoOption == Option(absent, absent, absent)
NotAssigned == "nothing"
OptionData(name, providerType) == [name |-> name, providerType |-> providerType]
Data(current, recentDynamicOptions) ==
    [current |-> current, recentDynamicOptions |-> recentDynamicOptions]
NoData == Data(NoOption, Undefined)                 \* getData's default {}
InitialCache == Data(NoOption, Defined(<<>>))

WorkspaceFolderUri == "ws"
Configurations == <<"launch", "attach">>      \* model.configurations
AllConfigurations ==
    <<[type |-> "node", configurations |-> <<"d1", "d2">>],
      [type |-> "py", configurations |-> <<"d1", "d2">>]>>
(* what debug.provideDynamicDebugConfigurations may answer *)
ProvidedConfigurations == {<<>>, AllConfigurations}
(* what the user may pick in the select widget: name, folder, provider type *)
Picks ==
    {Option("attach", WorkspaceFolderUri, absent),
     Option("gone", WorkspaceFolderUri, absent)}
    \cup {Option(n, absent, t) : n \in {"d1", "d2"}, t \in {"node", "py"}}

InSeq(seq, x) == \E i \in 1..Len(seq) : seq[i] = x
RemoveAt(seq, index) ==
    SubSeq(seq, 1, index - 1) \o SubSeq(seq, index + 1, Len(seq))
Reverse(seq) == [i \in 1..Len(seq) |-> seq[Len(seq) + 1 - i]]
KeyOf(option) == <<option.name, option.providerType>>

find(m, name, workspaceFolderUri, providerType) ==
    LET perType == m.dynamicDebugConfigurationsPerType
    IN IF /\ providerType # absent
          /\ perType.defined
          /\ \E i \in 1..Len(perType.value) :
                /\ perType.value[i].type = providerType
                /\ InSeq(perType.value[i].configurations, name)
       THEN Option(name, absent, providerType)
       ELSE IF /\ workspaceFolderUri = WorkspaceFolderUri
               /\ InSeq(Configurations, name)
       THEN Option(name, workspaceFolderUri, absent)
       ELSE NoOption

(* a faulty variant of updateCurrent: without the default value of options *)
updateCurrent_noDefault(m, options) ==
    LET found == IF options = NoOption THEN NoOption
                 ELSE find(m, options.name, options.workspaceFolderUri,
                           options.providerType)
        first == IF Len(Configurations) > 0
                 THEN Option(Configurations[1], WorkspaceFolderUri, absent)
                 ELSE NoOption
    IN [m EXCEPT !.currentOptions = IF found # NoOption THEN found ELSE first,
                 !.fired = TRUE]

(* updateCurrent(options = this._currentOptions) *)
updateCurrent(m, options) ==
    LET opts == IF options = NoOption THEN m.currentOptions ELSE options
        found == IF opts = NoOption THEN NoOption
                 ELSE find(m, opts.name, opts.workspaceFolderUri, opts.providerType)
        first == IF Len(Configurations) > 0
                 THEN Option(Configurations[1], WorkspaceFolderUri, absent)
                 ELSE NoOption
    IN [m EXCEPT !.currentOptions = IF found # NoOption THEN found ELSE first,
                 !.fired = TRUE]

dynamicOptionsMatch(one, other) ==
    /\ one.providerType # absent
    /\ other.providerType # absent
    /\ one.name = other.name
    /\ one.providerType = other.providerType

(* a faulty variant of updateRecentlyUsedDynamicConfigurationOptions: the *)
(* newest entry is the one dropped when the list is full                  *)
updateRecentlyUsed_dropNewest(m, option) ==
    IF option # NoOption /\ option.providerType # absent
    THEN LET tracker == m.recentDynamicOptionsTracker
             matches == {i \in 1..Len(tracker) : dynamicOptionsMatch(tracker[i], option)}
             removed == IF matches # {}
                        THEN RemoveAt(tracker, CHOOSE i \in matches : \A j \in matches : i <= j)
                        ELSE tracker
             pushed == Append(removed, option)
         IN [m EXCEPT !.recentDynamicOptionsTracker =
                 IF Len(pushed) > MaxRecent
                 THEN SubSeq(pushed, 1, MaxRecent)
                 ELSE pushed]
    ELSE m

(* a faulty variant of updateRecentlyUsedDynamicConfigurationOptions: an *)
(* entry already in the list is not removed                              *)
updateRecentlyUsed_noSplice(m, option) ==
    IF option # NoOption /\ option.providerType # absent
    THEN LET pushed == Append(m.recentDynamicOptionsTracker, option)
         IN [m EXCEPT !.recentDynamicOptionsTracker =
                 IF Len(pushed) > MaxRecent THEN Tail(pushed) ELSE pushed]
    ELSE m

(* a faulty variant of updateRecentlyUsedDynamicConfigurationOptions: any *)
(* option is added, dynamic or not                                        *)
updateRecentlyUsed_anyOption(m, option) ==
    IF option # NoOption
    THEN LET pushed == Append(m.recentDynamicOptionsTracker, option)
         IN [m EXCEPT !.recentDynamicOptionsTracker =
                 IF Len(pushed) > MaxRecent THEN Tail(pushed) ELSE pushed]
    ELSE m

updateRecentlyUsedDynamicConfigurationOptions(m, option) ==
    IF option # NoOption /\ option.providerType # absent
    THEN LET tracker == m.recentDynamicOptionsTracker
             matches == {i \in 1..Len(tracker) : dynamicOptionsMatch(tracker[i], option)}
             removed == IF matches # {}
                        THEN RemoveAt(tracker, CHOOSE i \in matches : \A j \in matches : i <= j)
                        ELSE tracker
             pushed == Append(removed, option)
         IN [m EXCEPT !.recentDynamicOptionsTracker =
                 IF Len(pushed) > MaxRecent THEN Tail(pushed) ELSE pushed,
                      !.spliced = (matches # {}),
                      !.shifted = IF Len(pushed) > MaxRecent
                                  THEN pushed[1] ELSE NoOption]
    ELSE m

(* history: the option assigned, and the dynamic options in the order of *)
(* their last assignment                                                 *)
Assigned(m, option) ==
    IF option # NoOption /\ option.providerType # absent
    THEN [m EXCEPT !.assigned = "dynamic",
                   !.recency =
             SelectSeq(@, LAMBDA k : k # KeyOf(option)) \o <<KeyOf(option)>>]
    ELSE [m EXCEPT !.assigned =
             IF option = NoOption THEN absent ELSE "non-dynamic"]

(* set current(option) *)
setCurrent(m, option) ==
    Assigned(updateRecentlyUsedDynamicConfigurationOptions(
                 updateCurrent(m, option), option), option)

selectionChanged(m, option) ==
    [setCurrent(m, option) EXCEPT !.initialCurrentHasChanged = TRUE]

resolveRecentDynamicOptionsFromData(m) ==
    LET perType == m.dynamicDebugConfigurationsPerType
        optionsList == m.loadingDataCache.recentDynamicOptions
    IN IF \/ Len(m.recentDynamicOptionsTracker) > 0
          \/ ~perType.defined
          \/ Len(perType.value) < 1
       THEN m
       ELSE IF ~optionsList.defined THEN m
       ELSE
         LET found == [i \in 1..Len(optionsList.value) |->
                          find(m, optionsList.value[i].name, absent,
                               optionsList.value[i].providerType)]
             m1 == [m EXCEPT !.recentDynamicOptionsTracker =
                        SelectSeq(found, LAMBDA o : o # NoOption)]
             cachedCurrent == m.loadingDataCache.current
         IN IF /\ cachedCurrent # NoOption
               /\ cachedCurrent.providerType # absent
               /\ Len(m1.recentDynamicOptionsTracker) > 0
               /\ ~m1.initialCurrentHasChanged
            THEN LET configuration ==
                         find(m1, cachedCurrent.name, cachedCurrent.workspaceFolderUri,
                              cachedCurrent.providerType)
                 IN IF configuration # NoOption
                    THEN setCurrent(m1, configuration)
                    ELSE m1
            ELSE m1

load(m) ==
    LET data == m.storage
        m1 == IF data.current # NoOption
              THEN setCurrent(m, find(m, data.current.name,
                                      data.current.workspaceFolderUri,
                                      data.current.providerType))
              ELSE m
    IN resolveRecentDynamicOptionsFromData([m1 EXCEPT !.loadingDataCache = data])

save(m) ==
    LET tracker == m.recentDynamicOptionsTracker
    IN [m EXCEPT !.storage =
           Data(m.currentOptions,
                IF Len(tracker) > 0
                THEN Defined([i \in 1..Len(tracker) |->
                                 OptionData(tracker[i].name, tracker[i].providerType)])
                ELSE Undefined)]

provideDynamicDebugConfigurations(m, provided) ==
    LET m1 == [m EXCEPT !.dynamicDebugConfigurationsPerType = Defined(provided)]
    IN updateCurrent(m1, m1.currentOptions)

(* the manager as constructed over the stored data, `initialized` resolved *)
NewManager(stored) ==
    updateCurrent(
        [currentOptions |-> NoOption,
         recentDynamicOptionsTracker |-> <<>>,
         loadingDataCache |-> InitialCache,
         initialCurrentHasChanged |-> FALSE,
         dynamicDebugConfigurationsPerType |-> Undefined,
         storage |-> stored,
         recency |-> IF stored.recentDynamicOptions.defined
                     THEN [i \in 1..Len(stored.recentDynamicOptions.value) |->
                              KeyOf(stored.recentDynamicOptions.value[i])]
                     ELSE <<>>,
         fired |-> FALSE,
         spliced |-> FALSE,
         shifted |-> NoOption,
         assigned |-> NotAssigned], NoOption)

----------------------------------------------------------------------------
(* The state as one record, and the step that stores a record back *)

World(input) ==
    [state |-> state, callback |-> callback, events |-> events,
     errorCount |-> errorCount, disposeOnClose |-> disposeOnClose,
     closeListeners |-> closeListeners,
     threw |-> "none", trace |-> Append(trace, input), src |-> Len(trace) + 1,
     sendThrows |-> FALSE]

Store(w) ==
    /\ state' = w.state
    /\ callback' = w.callback
    /\ events' = w.events
    /\ errorCount' = w.errorCount
    /\ disposeOnClose' = w.disposeOnClose
    /\ closeListeners' = w.closeListeners
    /\ threw' = w.threw
    /\ trace' = IF w.threw = "none" THEN w.trace
                ELSE Append(w.trace, Entry("throw", "-", 0, w.threw, w.src))
    /\ UNCHANGED <<arrayVars, reExportVars, debugVars>>

(* inputs have src 0, everything they cause has the input's position *)
Inputs == {i \in 1..Len(trace) : trace[i].src = 0}
InputsOf(kinds) == {i \in Inputs : trace[i].kind \in kinds}
MayStep == Cardinality(Inputs) < MaxInputs

InitSocket ==
    /\ state = "initial"
    /\ callback = NoCallback
    /\ events = <<>>
    /\ errorCount = 0
    /\ disposeOnClose = <<>>
    /\ handles = {}
    /\ closeListeners = <<>>
    /\ threw = "none"
    /\ trace = <<>>

(* no call of sortedDiff is made *)
NoArrays ==
    /\ before = <<>>
    /\ after = <<>>
    /\ compare = "value"
    /\ result = <<>>
    /\ returned = FALSE

(* no call of getReExported is made *)
NoReExport ==
    /\ reExportPrefix = <<>>
    /\ moduleName = <<>>
    /\ reExported = Undefined
    /\ reExportDone = FALSE

(* no DebugConfigurationManager is constructed *)
NoDebug ==
    /\ currentOptions = NoOption
    /\ recentDynamicOptionsTracker = <<>>
    /\ loadingDataCache = NoData
    /\ initialCurrentHasChanged = FALSE
    /\ dynamicDebugConfigurationsPerType = Undefined
    /\ storage = NoData
    /\ loading = FALSE
    /\ recency = <<>>
    /\ onDidChangeFired = FALSE
    /\ spliced = FALSE
    /\ shifted = NoOption
    /\ assigned = NotAssigned

Init == InitSocket /\ NoArrays /\ NoReExport /\ NoDebug

(* the socket emits a message event *)
SocketMessage(T) ==
    /\ MayStep
    /\ \E text \in T :
         Store(onSocketMessage(World(Input("sockMessage", "-", 0, text)), text))
    /\ UNCHANGED handles

(* the socket emits an error event *)
SocketError(E) ==
    /\ MayStep
    /\ \E error \in E :
         Store(onSocketError(World(Input("sockError", "-", error, "")), error))
    /\ UNCHANGED handles

(* the socket emits a close event *)
SocketClose ==
    /\ MayStep
    /\ \E code \in CloseCodes :
         Store(onSocketClose(World(Input("sockClose", "-", code, "")), code, ""))
    /\ UNCHANGED handles

(* reader.listen(cb); the Disposable is returned unless listen threw *)
Listen(C) ==
    /\ MayStep
    /\ \E cb \in C :
         LET w == listen(World(Input("listen", cb, 0, "")), cb)
         IN /\ Store(w)
            /\ handles' = IF w.threw = "none" THEN handles \cup {cb} ELSE handles

(* dispose() of a Disposable that listen returned *)
DisposeListener ==
    /\ MayStep
    /\ \E cb \in handles :
         /\ Store(disposeListener(World(Input("disposeListener", cb, 0, "")), cb))
         /\ handles' = handles \ {cb}

(* writer.write(msg) *)
WriteMsg(M) ==
    /\ MayStep
    /\ \E msg \in M, sendThrows \in BOOLEAN :
         Store(write(World(Input("write", "-", msg,
                                 IF sendThrows THEN "sendThrows" ELSE "")),
                     msg, sendThrows))
    /\ UNCHANGED handles

Write == WriteMsg(Messages)

(* channel.send(content) *)
ChannelSend ==
    /\ MayStep
    /\ \E content \in Contents, sendThrows \in BOOLEAN :
         Store(channelSend(World(Input("channelSend",
                                       IF sendThrows THEN "sendThrows" ELSE "-",
                                       0, content)),
                           content, sendThrows))
    /\ UNCHANGED handles

(* a text sent by the channel reaches the reader of the paired channel.     *)
(* Both ends are a PluginWebSocketChannel, so one channel stands for both:  *)
(* the socket hands over the oldest sent text that was not handed over yet, *)
(* and the input remembers in value which send it carries.                  *)
Sent == {k \in 1..Len(trace) : trace[k].kind = "send"}
Carried == {trace[i].value : i \in {j \in 1..Len(trace) :
                                       trace[j].kind = "sockMessage"
                                       /\ trace[j].src = 0}}
Deliver ==
    /\ MayStep
    /\ Sent \ Carried # {}
    /\ LET k == CHOOSE x \in Sent \ Carried : \A y \in Sent \ Carried : x <= y
       IN Store(onSocketMessage(
                    World(Input("sockMessage", "-", k, trace[k].text)),
                    trace[k].text))
    /\ UNCHANGED handles

(* channel.onMessage(cb) *)
ChannelOnMessage ==
    /\ MayStep
    /\ \E cb \in ChannelCallbacks :
         Store(channelOnMessage(World(Input("channelOnMessage", cb, 0, "")), cb))
    /\ UNCHANGED handles

(* channel.onClose(cb) *)
ChannelOnClose ==
    /\ MayStep
    /\ \E cb \in ChannelCloseCallbacks :
         Store(channelOnClose(World(Input("channelOnClose", cb, 0, "")), cb))
    /\ UNCHANGED handles

(* the socket under the channel emits close(code, reason) *)
CloseSignals == {<<NormalClosure, "">>, <<1006, "going away">>}
ChannelSocketClose ==
    /\ MayStep
    /\ \E signal \in CloseSignals :
         LET code == signal[1]
             reason == signal[2]
         IN Store(onSocketClose(World(Input("sockClose", "-", code, reason)),
                                code, reason))
    /\ UNCHANGED handles

(* the state of the target's socket during one handler, as an input mark *)
Mark(sendThrows) == IF sendThrows THEN "sendThrows" ELSE "-"

(* connection.forward(to, map) *)
Forward(F) ==
    /\ MayStep
    /\ \E cb \in F, sendThrows \in BOOLEAN :
         Store(forward([World(Input("forward", cb, 0, Mark(sendThrows)))
                           EXCEPT !.sendThrows = sendThrows], cb))
    /\ UNCHANGED handles

(* the source socket emits a message event while forwarding may be set up *)
SourceMessage(T) ==
    /\ MayStep
    /\ \E text \in T, sendThrows \in BOOLEAN :
         Store(onSocketMessage(
                   [World(Input("sockMessage", Mark(sendThrows), 0, text))
                       EXCEPT !.sendThrows = sendThrows], text))
    /\ UNCHANGED handles

Registered == {trace[i].cb : i \in InputsOf({"onClose"})}

(* connection.onClose(k), each callback registered once *)
OnClose ==
    /\ MayStep
    /\ \E k \in CloseCallbacks \ Registered :
         Store(onClose(World(Input("onClose", k, 0, "")), k))
    /\ UNCHANGED handles

(* dispose() of the Disposable returned by connection.onClose(k) *)
RemoveOnClose ==
    /\ MayStep
    /\ \E k \in Registered \ {trace[i].cb : i \in InputsOf({"removeOnClose"})} :
         Store(removeOnClose(World(Input("removeOnClose", k, 0, "")), k))
    /\ UNCHANGED handles

(* the writer's close event fires *)
WriterClose ==
    /\ MayStep
    /\ Store(onWriterClose(World(Input("writerClose", "-", 0, ""))))
    /\ UNCHANGED handles

(* connection.dispose() *)
ConnectionDispose ==
    /\ MayStep
    /\ Store(connectionDispose(World(Input("connDispose", "-", 0, ""))))
    /\ UNCHANGED handles

Next ==
    \/ SocketMessage(Texts)
    \/ SocketError(SockErrors)
    \/ SocketClose
    \/ Listen(Callbacks)
    \/ DisposeListener

Spec == Init /\ [][Next]_vars

(* the connection of createWebSocketConnection: reader, writer, close group *)
NextConn ==
    \/ SocketMessage({"1"})
    \/ SocketError({7})
    \/ SocketClose
    \/ Listen({"cb1"})
    \/ OnClose
    \/ RemoveOnClose
    \/ WriterClose
    \/ ConnectionDispose

SpecConn == Init /\ [][NextConn]_vars

(* the writer alone *)
NextWriter == Write

SpecWriter == Init /\ [][NextWriter]_vars

(* the reader and the writer of one socket, with the close group *)
NextDuplex ==
    \/ SocketMessage({"1"})
    \/ SocketClose
    \/ Listen({"cb1"})
    \/ OnClose
    \/ WriteMsg({1, 3})

SpecDuplex == Init /\ [][NextDuplex]_vars

(* a source connection forwarding to the writer of a target connection *)
NextForward ==
    \/ SourceMessage({"1", "2", ""})
    \/ Forward(ForwardCallbacks)
    \/ Listen({"cb1"})

SpecForward == Init /\ [][NextForward]_vars

(* a call of sortedDiff with two arrays that are sorted under compare *)
InitArrays ==
    /\ InitSocket
    /\ compare \in Compares
    /\ before \in {arr \in Arrays : Sorted(arr, compare)}
    /\ after \in {arr \in Arrays : Sorted(arr, compare)}
    /\ result = <<>>
    /\ returned = FALSE
    /\ NoReExport
    /\ NoDebug

SortedDiff ==
    /\ ~returned
    /\ result' = sortedDiff(before, after, compare)
    /\ returned' = TRUE
    /\ UNCHANGED <<socketVars, before, after, compare, reExportVars, debugVars>>

NextArrays == SortedDiff

SpecArrays == InitArrays /\ [][NextArrays]_vars

(* a PackageReExport and one call of getReExported *)
InitReExport ==
    /\ InitSocket
    /\ NoArrays
    /\ reExportPrefix \in Prefixes
    /\ moduleName \in ModuleNames
    /\ reExported = Undefined
    /\ reExportDone = FALSE
    /\ NoDebug

GetReExported ==
    /\ ~reExportDone
    /\ reExported' = getReExported(reExportPrefix, moduleName)
    /\ reExportDone' = TRUE
    /\ UNCHANGED <<socketVars, arrayVars, reExportPrefix, moduleName, debugVars>>

NextReExport == GetReExported

SpecReExport == InitReExport /\ [][NextReExport]_vars

(* a DebugConfigurationManager of a frontend that is used, stopped and *)
(* started again; load() is called when the frontend starts           *)
Manager ==
    [currentOptions |-> currentOptions,
     recentDynamicOptionsTracker |-> recentDynamicOptionsTracker,
     loadingDataCache |-> loadingDataCache,
     initialCurrentHasChanged |-> initialCurrentHasChanged,
     dynamicDebugConfigurationsPerType |-> dynamicDebugConfigurationsPerType,
     storage |-> storage,
     recency |-> recency,
     fired |-> FALSE,
     spliced |-> FALSE,
     shifted |-> NoOption,
     assigned |-> NotAssigned]

StoreManager(m) ==
    /\ currentOptions' = m.currentOptions
    /\ recentDynamicOptionsTracker' = m.recentDynamicOptionsTracker
    /\ loadingDataCache' = m.loadingDataCache
    /\ initialCurrentHasChanged' = m.initialCurrentHasChanged
    /\ dynamicDebugConfigurationsPerType' = m.dynamicDebugConfigurationsPerType
    /\ storage' = m.storage
    /\ recency' = m.recency
    /\ onDidChangeFired' = m.fired
    /\ spliced' = m.spliced
    /\ shifted' = m.shifted
    /\ assigned' = m.assigned
    /\ UNCHANGED <<socketVars, arrayVars, reExportVars>>

InitDebug ==
    /\ InitSocket
    /\ NoArrays
    /\ NoReExport
    /\ LET m == NewManager(NoData)
       IN /\ currentOptions = m.currentOptions
          /\ recency = m.recency
          /\ recentDynamicOptionsTracker = m.recentDynamicOptionsTracker
          /\ loadingDataCache = m.loadingDataCache
          /\ initialCurrentHasChanged = m.initialCurrentHasChanged
          /\ dynamicDebugConfigurationsPerType = m.dynamicDebugConfigurationsPerType
          /\ storage = m.storage
    /\ loading = TRUE
    /\ onDidChangeFired = FALSE
    /\ spliced = FALSE
    /\ shifted = NoOption
    /\ assigned = NotAssigned

(* the select widget: manager.selectionChanged(manager.find(...)) *)
SelectionChanged ==
    \E pick \in Picks :
        LET option == find(Manager, pick.name, pick.workspaceFolderUri,
                           pick.providerType)
        IN /\ StoreManager(selectionChanged(Manager, option))
           /\ UNCHANGED loading

ProvideDynamicDebugConfigurations ==
    \E provided \in ProvidedConfigurations :
        /\ StoreManager(provideDynamicDebugConfigurations(Manager, provided))
        /\ UNCHANGED loading

(* load() completes *)
Load ==
    /\ loading
    /\ StoreManager(load(Manager))
    /\ loading' = FALSE

(* the getter recentDynamicOptions, read when the widget renders *)
RecentDynamicOptions ==
    /\ StoreManager(resolveRecentDynamicOptionsFromData(Manager))
    /\ UNCHANGED loading

(* the frontend stops, which saves, and starts again with a new manager *)
Restart ==
    /\ StoreManager(NewManager(save(Manager).storage))
    /\ loading' = TRUE

NextDebug ==
    \/ SelectionChanged
    \/ ProvideDynamicDebugConfigurations
    \/ Load
    \/ RecentDynamicOptions
    \/ Restart

SpecDebug == InitDebug /\ [][NextDebug]_vars

(* a PluginWebSocketChannel over a PluginConnection *)
NextChannel ==
    \/ ChannelSend
    \/ Deliver
    \/ ChannelOnMessage
    \/ ChannelOnClose
    \/ ChannelSocketClose

SpecChannel == Init /\ [][NextChannel]_vars

----------------------------------------------------------------------------
(* Reading the history *)

ReaderOut == {"message", "error", "close"}

Min(S) == CHOOSE x \in S : \A y \in S : x <= y

Listened == InputsOf({"listen"}) # {}
FirstListen == Min(InputsOf({"listen"}))

(* the position after the entries that input i caused *)
EndOf(i) ==
    IF \E j \in Inputs : j > i THEN Min({j \in Inputs : j > i}) ELSE Len(trace) + 1

(* positions of what input i caused *)
CausedBy(i) == (i + 1)..(EndOf(i) - 1)

(* positions, among those input i caused, where the event that socket input *)
(* s brought was delivered as kind                                          *)
Delivered(i, s, kind) ==
    {j \in CausedBy(i) : trace[j].src = s /\ trace[j].kind = kind}

InOrder(i) ==
    \A j, k \in CausedBy(i) :
        (j < k /\ trace[j].kind \in ReaderOut /\ trace[k].kind \in ReaderOut)
            => trace[j].src <= trace[k].src

Decodable(i) == trace[i].kind = "sockMessage" /\ CanParse(trace[i].text)

----------------------------------------------------------------------------
(* C1: N socket messages arrive before any listen call, then listen(cb) is  *)
(* called: cb is invoked exactly N times with the decoded messages in their *)
(* arrival order, all during listen, hence before any later message.        *)
(* Stated for the messages that have a decoded form: each of them is given  *)
(* to cb once, in order, and cb is invoked for nothing else.                *)
C1_OrderingUnderBuffering ==
    (Listened /\ \A i \in 1..(FirstListen - 1) : trace[i].kind = "sockMessage")
    => LET L == FirstListen
       IN /\ \A i \in 1..(L - 1) :
                Decodable(i) =>
                    /\ Cardinality(Delivered(L, i, "message")) = 1
                    /\ \A j \in Delivered(L, i, "message") :
                          /\ trace[j].cb = trace[L].cb
                          /\ trace[j].value = JSONparse(trace[i].text)
          /\ Cardinality({j \in CausedBy(L) : trace[j].kind = "message"})
                = Cardinality({i \in 1..(L - 1) : Decodable(i)})
          /\ InOrder(L)

(* C2: messages arrive, the socket closes, no listener was ever attached:   *)
(* a later listen(cb) delivers every buffered event exactly once in arrival *)
(* order, and nothing is delivered after that.                              *)
C2_ReplayAfterEarlyClose ==
    (Listened /\ \E c \in InputsOf({"sockClose"}) :
                    c < FirstListen /\ \E m \in 1..(c - 1) : Decodable(m))
    => LET L == FirstListen
           c == Min(InputsOf({"sockClose"}))
       IN /\ \A i \in 1..c :
                /\ Decodable(i) => Cardinality(Delivered(L, i, "message")) = 1
                /\ trace[i].kind = "sockError"
                      => Cardinality(Delivered(L, i, "error")) = 1
          /\ Cardinality(Delivered(L, c, "close")) = 1
          /\ trace[c].value # NormalClosure
                => Cardinality(Delivered(L, c, "error")) = 1
          /\ InOrder(L)
          /\ \A j \in EndOf(L)..Len(trace) : trace[j].kind \notin ReaderOut

(* C3: every socket close is observable: once the socket has emitted close *)
(* and a listener has been attached (before or after), the reader's close   *)
(* subscribers were notified, and so was every callback registered with the *)
(* connection's onClose before the close and never removed.                 *)
C3_CloseObservable ==
    (Listened /\ InputsOf({"sockClose"}) # {})
    => LET c == Min(InputsOf({"sockClose"}))
       IN /\ \E j \in 1..Len(trace) : trace[j].kind = "close"
          /\ \A r \in InputsOf({"onClose"}) :
                (r < c /\ \A d \in InputsOf({"removeOnClose"}) :
                              trace[d].cb # trace[r].cb)
                => \E j \in 1..Len(trace) :
                      trace[j].kind = "connClose" /\ trace[j].cb = trace[r].cb

(* C4: after a close was delivered to the reader no message callback and no *)
(* error callback is invoked again, whatever the socket emits; the same     *)
(* holds once the socket has emitted close (the reader is closed then), but *)
(* for the error that this very close event is promoted to.                 *)
C4_PostCloseSilence ==
    /\ \A i, j \in 1..Len(trace) :
          (i < j /\ trace[i].kind = "close")
              => trace[j].kind \notin {"message", "error"}
    /\ \A c \in InputsOf({"sockClose"}) : \A j \in (c + 1)..Len(trace) :
          trace[j].kind \in {"message", "error"}
              => (trace[j].kind = "error" /\ trace[j].src = c)
    /\ (\E i \in 1..Len(trace) : trace[i].kind = "close") => state = "closed"

(* a close was delivered, then a decodable message and an error arrived *)
C4_Witness ==
    /\ callback # NoCallback
    /\ \E i, j \in 1..Len(trace) :
          /\ i < j
          /\ trace[i].kind = "close"
          /\ Decodable(j)
    /\ \E i, j \in 1..Len(trace) :
          i < j /\ trace[i].kind = "close" /\ trace[j].kind = "sockError"

(* C5: while the reader is listening, a socket close with code 1000 fires   *)
(* the close subscribers only, a close with any other code fires the error  *)
(* subscribers exactly once and then the close subscribers.                 *)
C5_CloseSentinel ==
    [][(/\ state = "listening"
        /\ Len(trace') > Len(trace)
        /\ trace'[Len(trace) + 1].kind = "sockClose")
       => LET code == trace'[Len(trace) + 1].value
              out == SelectSeq(SubSeq(trace', Len(trace) + 2, Len(trace')),
                               LAMBDA e : e.kind \in ReaderOut \cup {"throw"})
          IN IF code = NormalClosure
             THEN /\ Len(out) = 1
                  /\ out[1].kind = "close"
             ELSE /\ Len(out) = 2
                  /\ out[1].kind = "error"
                  /\ out[1].value = CloseError(code, "")
                  /\ out[2].kind = "close"]_vars

(* a close with another code arrived while listening: error, then close *)
C5_Witness ==
    \E c \in InputsOf({"sockClose"}) :
        /\ trace[c].value # NormalClosure
        /\ Delivered(c, c, "error") # {}
        /\ Delivered(c, c, "close") # {}

(* C6: no event buffered before listen is delivered more than once, however *)
(* often listen is called and however the calls interleave with socket      *)
(* events: a buffered message or error yields at most one callback          *)
(* invocation, a buffered close at most one error and one close.            *)
C6_SingleDelivery ==
    Listened =>
        \A s \in 1..(FirstListen - 1) :
            LET out == {j \in 1..Len(trace) :
                           trace[j].src = s /\ trace[j].kind \in ReaderOut}
            IN /\ \A i, j \in out : i # j => trace[i].kind # trace[j].kind
               /\ trace[s].kind \in {"sockMessage", "sockError"}
                     => Cardinality(out) <= 1

(* a buffered message and a buffered error were replayed, listen was called again and more happened *)
C6_Witness ==
    /\ Cardinality(InputsOf({"listen"})) >= 2
    /\ \E s, t \in 1..(FirstListen - 1) :
          /\ s # t
          /\ Delivered(FirstListen, s, "message") # {}
          /\ Delivered(FirstListen, t, "error") # {}
    /\ \E i \in Inputs : i > Min(InputsOf({"listen"}) \ {FirstListen})

(* C7: for any interleaving of socket messages and socket errors received   *)
(* before listen, the replay invokes the message callback and the error     *)
(* subscribers in the order of arrival, all of them during listen.          *)
(* Stated for the messages that have a decoded form and for every error.    *)
C7_ReplayOrder ==
    (/\ Listened
     /\ \A i \in 1..(FirstListen - 1) : trace[i].kind \in {"sockMessage", "sockError"})
    => LET L == FirstListen
       IN /\ \A i \in 1..(L - 1) :
                /\ Decodable(i) => Cardinality(Delivered(L, i, "message")) = 1
                /\ trace[i].kind = "sockError"
                      => /\ Cardinality(Delivered(L, i, "error")) = 1
                         /\ \A j \in Delivered(L, i, "error") :
                               trace[j].value = trace[i].value
          /\ InOrder(L)

(* C8: after the handle returned by listen(cb) was disposed, with the       *)
(* socket still open, an arriving socket message is dropped: no callback is *)
(* invoked, nothing is queued, the reader stays listening and the handler   *)
(* raises no exception.  Stated for the messages that decode.               *)
C8_DroppedAfterDispose ==
    [][(/\ state = "listening"
        /\ callback = NoCallback
        /\ Len(trace') > Len(trace)
        /\ trace'[Len(trace) + 1].kind = "sockMessage"
        /\ CanParse(trace'[Len(trace) + 1].text))
       => /\ \A j \in (Len(trace) + 2)..Len(trace') : trace'[j].kind # "message"
          /\ events' = events
          /\ state' = "listening"
          /\ threw' = "none"]_vars

(* a write that throws while encoding or while sending *)
FailedWrite(i) == ~CanStringify(trace[i].value) \/ trace[i].text = "sendThrows"

(* C9: a write whose encoding or socket send throws produces exactly one    *)
(* write-error event carrying the error, the message and the number of      *)
(* failed writes so far, and raises no exception; a write that succeeds     *)
(* produces none.                                                           *)
C9_WriteIsolation ==
    \A i \in InputsOf({"write"}) :
        LET errs == {j \in CausedBy(i) : trace[j].kind = "writeError"}
        IN /\ \A j \in CausedBy(i) : trace[j].kind # "throw"
           /\ Cardinality(errs) = IF FailedWrite(i) THEN 1 ELSE 0
           /\ \A j \in errs :
                 /\ trace[j].msg = trace[i].value
                 /\ trace[j].text = IF CanStringify(trace[i].value)
                                    THEN "SendError" ELSE "TypeError"
                 /\ trace[j].value =
                       Cardinality({k \in InputsOf({"write"}) :
                                       k <= i /\ FailedWrite(k)})

(* an encoding failure, a successful write, then a send failure numbered 2 *)
C9_Witness ==
    /\ threw = "none"
    /\ \E i, j, k \in InputsOf({"write"}) :
          /\ i < j /\ j < k
          /\ ~CanStringify(trace[i].value)
          /\ ~FailedWrite(j)
          /\ CanStringify(trace[k].value) /\ FailedWrite(k)
          /\ trace[k + 1].kind = "writeError" /\ trace[k + 1].value = 2

(* invocations of close callback k; the reader and writer close events *)
Fired(k) == {j \in 1..Len(trace) : trace[j].kind = "connClose" /\ trace[j].cb = k}
CloseSources == {j \in 1..Len(trace) : trace[j].kind \in {"close", "writerClose"}}

(* C10: every callback registered with the connection's onClose fires once  *)
(* in total when the reader close and the writer close both occur, in       *)
(* either order: never twice, and once as soon as one of the two occurred   *)
(* if it was registered (and not removed) before.                           *)
C10_CloseOnce ==
    /\ \A k \in CloseCallbacks : Cardinality(Fired(k)) <= 1
    /\ CloseSources # {}
       => \A r \in InputsOf({"onClose"}) :
             (/\ r < Min(CloseSources)
              /\ \A d \in InputsOf({"removeOnClose"}) :
                    trace[d].cb = trace[r].cb => d > Min(CloseSources))
             => Cardinality(Fired(trace[r].cb)) = 1

(* both callbacks registered first, reader close and writer close both occurred *)
C10_Witness ==
    /\ \E i, j \in 1..Len(trace) :
          trace[i].kind = "close" /\ trace[j].kind = "writerClose"
    /\ \A k \in CloseCallbacks :
          \E r \in InputsOf({"onClose"}) :
              trace[r].cb = k /\ r < Min(CloseSources) /\ Cardinality(Fired(k)) = 1

----------------------------------------------------------------------------
(* C13: a reader has at most one active listener: every socket message is   *)
(* given to at most one callback, once, and only to a callback that was     *)
(* given to listen and whose handle was not disposed before.                *)
C13_SingleListener ==
    /\ \A s \in InputsOf({"sockMessage"}) :
          Cardinality({j \in 1..Len(trace) :
                          trace[j].kind = "message" /\ trace[j].src = s}) <= 1
    /\ \A j \in 1..Len(trace) :
          trace[j].kind = "message"
          => /\ \E l \in InputsOf({"listen"}) :
                   l < j /\ trace[l].cb = trace[j].cb
             /\ \A d \in InputsOf({"disposeListener"}) :
                   trace[d].cb = trace[j].cb => d > j

(* two listen calls with different callbacks, messages delivered, a handle *)
(* disposed and a message arriving after that                              *)
C13_Witness ==
    /\ \E l, m \in InputsOf({"listen"}) : trace[l].cb # trace[m].cb
    /\ \E j \in 1..Len(trace) : trace[j].kind = "message"
    /\ \E d \in InputsOf({"disposeListener"}) :
          \E i \in Inputs : i > d /\ Decodable(i)

(* C14: the state of the reader moves only along initial -> listening ->    *)
(* closed or initial -> closed: closed is terminal and initial is never     *)
(* entered again.                                                           *)
C14_StateMachine ==
    [][/\ state = "closed" => state' = "closed"
       /\ state' = "initial" => state = "initial"]_vars

(* closed from listening, and then listen, a message and a close came *)
C14_Witness ==
    /\ state = "closed"
    /\ \E c \in 1..Len(trace) :
          /\ trace[c].kind = "close"
          /\ \E l \in InputsOf({"listen"}) : l > c
          /\ \E m \in InputsOf({"sockMessage"}) : m > c /\ Decodable(m)
          /\ \E k \in InputsOf({"sockClose"}) : k > c

(* C15: over the life of a reader the close subscribers are notified at     *)
(* most once, also when the socket emits several close events or a close    *)
(* was queued and another arrives live.                                     *)
C15_CloseAtMostOnce ==
    Cardinality({j \in 1..Len(trace) : trace[j].kind = "close"}) <= 1

(* the close was notified and the socket emitted close again after it *)
C15_Witness ==
    \E c \in 1..Len(trace) :
        /\ trace[c].kind = "close"
        /\ \E k \in InputsOf({"sockClose"}) : k > c
        /\ Cardinality(InputsOf({"sockClose"})) >= 2

(* C20: the reader never queues again once it left state initial, and when  *)
(* a listen call that did the replay returns, the queue is empty.           *)
C20_NoRebuffering ==
    [][/\ state # "initial" => events' = events
       /\ (/\ state = "initial"
           /\ Len(trace') > Len(trace)
           /\ trace'[Len(trace) + 1].kind = "listen"
           /\ threw' = "none")
          => events' = <<>>]_vars

(* a replay of two queued events returned, later a message, an error and a *)
(* close arrived                                                           *)
C20_Witness ==
    /\ Listened
    /\ events = <<>>
    /\ Cardinality(CausedBy(FirstListen)) >= 2
    /\ \E i \in InputsOf({"sockMessage"}) : i > FirstListen
    /\ \E i \in InputsOf({"sockError"}) : i > FirstListen

(* the write-error events, in the order they were emitted *)
WriteErrors == {j \in 1..Len(trace) : trace[j].kind = "writeError"}

(* C16: the error counter of the writer is never reset and changes only on  *)
(* a failed write: the numbers reported in the write-error events are 1, 2, *)
(* 3, ... in order, the counter equals the number of failed writes whatever *)
(* else happened on the socket, and a write that succeeds does one socket   *)
(* send of the encoded message and emits no error event.                    *)
C16_ErrorCounter ==
    /\ errorCount = Cardinality(WriteErrors)
    /\ errorCount = Cardinality({i \in InputsOf({"write"}) : FailedWrite(i)})
    /\ \A j \in WriteErrors :
          trace[j].value = Cardinality({k \in WriteErrors : k <= j})
    /\ \A i \in InputsOf({"write"}) :
          ~FailedWrite(i)
          => /\ Cardinality(CausedBy(i)) = 1
             /\ \A j \in CausedBy(i) :
                   /\ trace[j].kind = "send"
                   /\ trace[j].text = JSONstringify(trace[i].value)

(* a failed write, a socket event, a successful write and a failed write *)
(* that is numbered 2                                                    *)
C16_Witness ==
    /\ errorCount = 2
    /\ \E i, j, k \in InputsOf({"write"}) :
          /\ i < j /\ j < k
          /\ FailedWrite(i) /\ ~FailedWrite(j) /\ FailedWrite(k)
          /\ \E c \in InputsOf({"sockClose", "sockMessage"}) : i < c /\ c < j

(* C17: a failed write changes nothing but the error counter: it emits its  *)
(* one write-error event and nothing else, so the socket is not closed or   *)
(* disposed, no close event fires, the close group is kept, and the state,  *)
(* the callback and the queue of the reader on the same socket are kept.    *)
C17_FailedWriteFrame ==
    [][(/\ Len(trace') > Len(trace)
        /\ trace'[Len(trace) + 1].kind = "write"
        /\ \/ ~CanStringify(trace'[Len(trace) + 1].value)
           \/ trace'[Len(trace) + 1].text = "sendThrows")
       => /\ errorCount' = errorCount + 1
          /\ state' = state
          /\ callback' = callback
          /\ events' = events
          /\ disposeOnClose' = disposeOnClose
          /\ handles' = handles
          /\ threw' = "none"
          /\ Len(trace') = Len(trace) + 2
          /\ trace'[Len(trace) + 2].kind = "writeError"]_vars

(* a send failed while the reader had a message queued and a close callback *)
(* was registered, and the reader then listened and got the message         *)
C17_Witness ==
    \E m \in InputsOf({"sockMessage"}), k \in InputsOf({"onClose"}),
       i \in InputsOf({"write"}), l \in InputsOf({"listen"}) :
        /\ m < i /\ k < i /\ i < l
        /\ CanStringify(trace[i].value) /\ FailedWrite(i)
        /\ disposeOnClose # <<>>
        /\ \E j \in 1..Len(trace) : trace[j].kind = "message" /\ trace[j].src = m

(* what the target's writer was given, and what the listener of forward *)
(* was given with the map applied, both in order                        *)
WrittenTo(tr) ==
    LET s == SelectSeq(tr, LAMBDA e : e.kind = "targetWrite")
    IN [k \in 1..Len(s) |-> s[k].value]
ForwardedFrom(tr) ==
    LET s == SelectSeq(tr, LAMBDA e : e.kind = "message"
                                      /\ e.cb \in ForwardCallbacks)
    IN [k \in 1..Len(s) |-> Map(s[k].cb, s[k].value)]
Forwarding == state = "listening" /\ callback \in ForwardCallbacks

C18_ForwardNotBlocked ==
    [][(/\ Forwarding
        /\ Len(trace') > Len(trace)
        /\ trace'[Len(trace) + 1].kind = "sockMessage"
        /\ CanParse(trace'[Len(trace) + 1].text))
       => LET n == Len(trace) + 1
              output == Map(callback, JSONparse(trace'[n].text))
              fails == ~CanStringify(output) \/ trace'[n].cb = "sendThrows"
          IN /\ Len(trace') = n + 3
             /\ trace'[n + 1].kind = "message"
             /\ trace'[n + 2].kind = "targetWrite"
             /\ trace'[n + 2].value = output
             /\ trace'[n + 3].kind = IF fails THEN "writeError" ELSE "send"
             /\ fails => /\ trace'[n + 3].value = errorCount + 1
                         /\ trace'[n + 3].msg = output
             /\ errorCount' = IF fails THEN errorCount + 1 ELSE errorCount
             /\ threw' = "none"
             /\ state' = state
             /\ callback' = callback
             /\ events' = events]_vars

(* a send of the target failed, and a message that arrived later was *)
(* written and sent                                                  *)
C18_Witness ==
    \E j, k \in 1..Len(trace) :
        /\ j < k
        /\ trace[j].kind = "writeError" /\ trace[j].text = "SendError"
        /\ trace[k].kind = "send" /\ trace[k].src > trace[j].src
        /\ trace[k - 1].kind = "targetWrite"

(* the channel.send call whose text the socket message at i carries *)
SendOf(i) == trace[trace[i].value].src

(* C12: for every string s, channel.send(s) gives the underlying writer      *)
(* exactly the envelope {jsonrpc: "0.0", content: s}, whose text is what the *)
(* socket sends; and when the reader of the paired channel delivers that     *)
(* text, the callback of onMessage receives exactly s, once.                 *)
C12_EnvelopeRoundTrip ==
    /\ \A i \in InputsOf({"channelSend"}) :
          /\ trace[i + 1].kind = "pluginWrite"
          /\ trace[i + 1].msg = [jsonrpc |-> "0.0", content |-> trace[i].text]
          /\ Cardinality({j \in CausedBy(i) : trace[j].kind = "pluginWrite"}) = 1
          /\ \A j \in CausedBy(i) :
                trace[j].kind = "send"
                => trace[j].text = StringifyEnvelope(trace[i + 1].msg)
    /\ \A j \in 1..Len(trace) :
          trace[j].kind = "channelMessage"
          => /\ trace[j].text = trace[SendOf(trace[j].src)].text
             /\ \A k \in 1..Len(trace) :
                   (trace[k].kind = "channelMessage" /\ trace[k].src = trace[j].src)
                   => k = j

(* the empty string and a string with a quote were sent and both arrived, *)
(* one of them queued before onMessage was called                         *)
C12_Witness ==
    /\ \E j, k \in 1..Len(trace) :
          /\ trace[j].kind = "channelMessage" /\ trace[j].text = ""
          /\ trace[k].kind = "channelMessage" /\ trace[k].text = "a\"b"
    /\ \E l \in InputsOf({"channelOnMessage"}) : CausedBy(l) # {}

(* C19: the callback given to channel.onClose is invoked with exactly       *)
(* (-1, "closed") when the underlying reader closes, whatever code and      *)
(* reason the socket gave: it is never invoked with anything else, and the  *)
(* close of the reader invokes it once for every registration made before.  *)
C19_CloseNormalised ==
    /\ \A j \in 1..Len(trace) :
          trace[j].kind = "channelClose"
          => /\ trace[j].value = -1
             /\ trace[j].text = "closed"
             /\ \E c \in 1..(j - 1) : trace[c].kind = "close"
    /\ \A c \in 1..Len(trace), cb \in ChannelCloseCallbacks :
          trace[c].kind = "close"
          => Cardinality({j \in 1..Len(trace) :
                             /\ trace[j].kind = "channelClose"
                             /\ trace[j].cb = cb
                             /\ trace[j].src = trace[c].src})
             = Cardinality({r \in InputsOf({"channelOnClose"}) :
                               r < c /\ trace[r].cb = cb})

(* two callbacks were told of a close the socket gave as (1006, going away) *)
C19_Witness ==
    \E j, k \in 1..Len(trace) :
        /\ trace[j].kind = "channelClose" /\ trace[k].kind = "channelClose"
        /\ trace[j].cb # trace[k].cb
        /\ trace[trace[j].src].kind = "sockClose"
        /\ trace[trace[j].src].value = 1006
        /\ trace[trace[j].src].text = "going away"

----------------------------------------------------------------------------
(* a listen call made while the reader was listening: an earlier listen    *)
(* found state initial and nothing closed the reader since                 *)
ListeningAt(l) ==
    /\ \E l0 \in InputsOf({"listen"}) : l0 < l
    /\ \A c \in 1..(l - 1) : trace[c].kind \notin {"sockClose", "close"}

(* C21, as amended: dispose() of a handle that listen(cb) returned clears  *)
(* the callback of the reader only if cb is the callback the reader holds; *)
(* the handle of a listen(cb2) made while cb1 is listening changes nothing *)
(* and cb1 stays the callback.  Nothing else of the reader changes.        *)
C21_HandleClearsOwnCallback ==
    [][(/\ Len(trace') > Len(trace)
        /\ trace'[Len(trace) + 1].kind = "disposeListener")
       => /\ callback' = IF callback = trace'[Len(trace) + 1].cb
                         THEN NoCallback ELSE callback
          /\ state' = state
          /\ events' = events
          /\ Len(trace') = Len(trace) + 1]_vars

(* listen(cb1), listen(cb2) while listening, the handle of cb2 disposed, *)
(* and a message that arrived after that was given to cb1                *)
C21_Witness ==
    \E l \in InputsOf({"listen"}), d \in InputsOf({"disposeListener"}) :
        /\ ListeningAt(l)
        /\ l < d
        /\ trace[d].cb = trace[l].cb
        /\ trace[l].cb # trace[FirstListen].cb
        /\ \E j \in (d + 1)..Len(trace) :
              trace[j].kind = "message" /\ trace[j].cb = trace[FirstListen].cb

(* C21, as stated: after dispose() of the handle returned by a listen call *)
(* made while the reader was already listening, no callback receives a     *)
(* message any more.                                                       *)
C21_HandleClearsCurrent ==
    \A l \in InputsOf({"listen"}), d \in InputsOf({"disposeListener"}) :
        (ListeningAt(l) /\ l < d /\ trace[d].cb = trace[l].cb)
        => \A j \in (d + 1)..Len(trace) : trace[j].kind # "message"

(* C22: events arriving after the socket closed are never accepted.  When  *)
(* the close arrived in state initial, what the socket emits later is      *)
(* neither queued nor delivered, then or at a later listen; so a close     *)
(* marker in the queue is always its most recently captured element,       *)
(* events[1].                                                              *)
C22_ClosedAcceptsNothing ==
    /\ \A k \in 1..Len(events) : events[k].has = {} => k = 1
    /\ \A c \in InputsOf({"sockClose"}) :
          (\A l \in InputsOf({"listen"}) : l > c)
          => \A i \in InputsOf({"sockMessage", "sockError", "sockClose"}) :
                i > c => /\ \A j \in 1..Len(trace) : trace[j].src # i
                         /\ \A k \in 1..Len(events) : events[k].src # i

(* a message and then the close were queued; a message and an error that *)
(* came later and a listen after them left the queue as it was           *)
C22_Witness ==
    /\ Len(events) = 2
    /\ events[1].has = {}
    /\ \E c \in InputsOf({"sockClose"}) :
          /\ \E m \in InputsOf({"sockMessage"}) : m > c /\ Decodable(m)
          /\ \E e \in InputsOf({"sockError"}) : e > c
          /\ \E l \in InputsOf({"listen"}) : l > c

(* C28: Connection.dispose() only calls the teardown callback it was given *)
(* (socket.dispose() for createWebSocketConnection), once per call: it     *)
(* fires no onClose callback, keeps the close group, and leaves the state, *)
(* the callback and the queue of the reader as they were.                  *)
C28_DisposeFrame ==
    [][(/\ Len(trace') > Len(trace)
        /\ trace'[Len(trace) + 1].kind = "connDispose")
       => /\ Len(trace') = Len(trace) + 2
          /\ trace'[Len(trace) + 2].kind = "socketDispose"
          /\ state' = state
          /\ callback' = callback
          /\ events' = events
          /\ disposeOnClose' = disposeOnClose
          /\ errorCount' = errorCount
          /\ threw' = "none"]_vars

(* dispose() was called twice on a connection with a registered close *)
(* callback and a queued message, and the socket was disposed twice   *)
C28_Witness ==
    /\ Cardinality(InputsOf({"connDispose"})) = 2
    /\ Cardinality({j \in 1..Len(trace) : trace[j].kind = "socketDispose"}) = 2
    /\ disposeOnClose # <<>>
    /\ events # <<>>
    /\ \A j \in 1..Len(trace) : trace[j].kind # "connClose"

(* C29: a listen(cb2) made while a first listener cb1 is active is ignored: *)
(* it changes nothing and delivers nothing, disposing the handle returned   *)
(* for cb2 leaves cb1 the callback, and every message that is delivered,    *)
(* before or after, is given to the callback of the first listen.           *)
C29_FirstWins ==
    [][/\ (/\ state = "listening"
           /\ Len(trace') > Len(trace)
           /\ trace'[Len(trace) + 1].kind = "listen")
          => /\ callback' = callback
             /\ state' = state
             /\ events' = events
             /\ Len(trace') = Len(trace) + 1
       /\ (/\ Len(trace') > Len(trace)
           /\ trace'[Len(trace) + 1].kind = "disposeListener"
           /\ trace'[Len(trace) + 1].cb # callback)
          => callback' = callback
       /\ \A j \in 1..Len(trace') :
             trace'[j].kind = "message"
             => \E l \in 1..(j - 1) :
                   /\ trace'[l].kind = "listen"
                   /\ trace'[l].cb = trace'[j].cb
                   /\ \A k \in 1..(l - 1) : trace'[k].kind # "listen"]_vars

(* cb1 got a message, listen(cb2) was called, and cb1 got the next message *)
C29_Witness ==
    \E l \in InputsOf({"listen"}) :
        /\ ListeningAt(l)
        /\ trace[l].cb # trace[FirstListen].cb
        /\ \E j \in 1..(l - 1) : trace[j].kind = "message"
        /\ \E j \in (l + 1)..Len(trace) :
              trace[j].kind = "message" /\ trace[j].cb = trace[FirstListen].cb
        /\ InputsOf({"disposeListener"}) = {}

(* C30: replay preserves the kind of every buffered event: what the reader *)
(* reports as a message came from a socket message, what it reports as an  *)
(* error came from a socket error (or from a close with an abnormal code), *)
(* and a close is reported only for a socket close, whatever the payload.  *)
C30_ReplayKeepsKind ==
    \A j \in 1..Len(trace) :
        /\ trace[j].kind = "message" => trace[trace[j].src].kind = "sockMessage"
        /\ trace[j].kind = "error"
              => trace[trace[j].src].kind \in {"sockError", "sockClose"}
        /\ trace[j].kind = "close" => trace[trace[j].src].kind = "sockClose"

(* what was buffered before the first listen: socket messages and errors *)
(* whose payloads the replay takes for what they are, one of the         *)
(* messages without a decoded form                                       *)
BufferedWithUndecodable ==
    /\ Listened
    /\ \A i \in 1..(FirstListen - 1) :
          \/ trace[i].kind = "sockMessage" /\ TruthyString(trace[i].text)
          \/ trace[i].kind = "sockError" /\ TruthyError(trace[i].value)
    /\ \E i \in 1..(FirstListen - 1) :
          trace[i].kind = "sockMessage" /\ ~CanParse(trace[i].text)

(* C31: a buffered message whose payload fails to decode during the replay *)
(* in listen does not prevent the remaining buffered events from being     *)
(* delivered: every other buffered event is still delivered to the         *)
(* listener during that listen, in order.                                  *)
C31_ReplayGoesOn ==
    BufferedWithUndecodable
    => LET L == FirstListen
       IN /\ \A i \in 1..(L - 1) :
                /\ Decodable(i)
                      => /\ Cardinality(Delivered(L, i, "message")) = 1
                         /\ \A j \in Delivered(L, i, "message") :
                               trace[j].cb = trace[L].cb
                /\ trace[i].kind = "sockError"
                      => Cardinality(Delivered(L, i, "error")) = 1
          /\ InOrder(L)

----------------------------------------------------------------------------
(* array.splice(start, deleteCount, ...toInsert) on a copy of arr *)
SpliceArray(arr, splice) ==
    SubSeq(arr, 1, splice.start) \o splice.toInsert
        \o SubSeq(arr, splice.start + splice.deleteCount + 1, Len(arr))

(* the splices applied from the last one to the first one, so that every *)
(* start is an index of the original array                               *)
RECURSIVE ApplySplices(_, _)
ApplySplices(arr, splices) ==
    IF splices = <<>> THEN arr
    ELSE ApplySplices(SpliceArray(arr, splices[Len(splices)]),
                      SubSeq(splices, 1, Len(splices) - 1))

(* C23, as amended: for before and after sorted under compare, applying    *)
(* the returned splices to before, last splice first, yields an array of   *)
(* the length of after whose elements are equal to those of after under    *)
(* compare; it is exactly after when compare returns 0 for identical       *)
(* elements only.                                                          *)
C23_SplicesApplyDiff ==
    returned
    => LET applied == ApplySplices(before, result)
       IN /\ Len(applied) = Len(after)
          /\ \A i \in 1..Len(after) : Compare(compare, applied[i], after[i]) = 0
          /\ compare = "value" => applied = after

(* removals and insertions in one call, before and after of full length *)
C23_Witness ==
    /\ returned
    /\ Len(before) = MaxLen /\ Len(after) = MaxLen
    /\ Len(result) >= 2
    /\ \E k \in 1..Len(result) : result[k].deleteCount > 0
    /\ \E k \in 1..Len(result) : result[k].toInsert # <<>>
    /\ ApplySplices(before, result) = after

(* C23, as stated: applying the returned splices to before yields exactly *)
(* after.                                                                 *)
C23_SplicesYieldAfter ==
    returned => ApplySplices(before, result) = after

----------------------------------------------------------------------------
(* the re-export prefix as a directory, without a slash at its end, and *)
(* what follows "<re-export-prefix>/" in a module name                  *)
PrefixDir ==
    IF reExportPrefix # <<>> /\ reExportPrefix[Len(reExportPrefix)] = "/"
    THEN SubSeq(reExportPrefix, 1, Len(reExportPrefix) - 1)
    ELSE reExportPrefix
FromPrefix ==
    /\ Len(moduleName) > Len(PrefixDir) + 1
    /\ SubSeq(moduleName, 1, Len(PrefixDir) + 1) = PrefixDir \o <<"/">>
PathInPrefix == SubSeq(moduleName, Len(PrefixDir) + 2, Len(moduleName))

(* C24: getReExported(m) returns the module path a/b/c exactly when m has *)
(* the form <re-export-prefix>/a/b/c, and returns undefined for every m   *)
(* that is not imported from <re-export-prefix>/...                       *)
C24_GetReExported ==
    reExportDone
    => reExported = IF FromPrefix THEN Defined(PathInPrefix) ELSE Undefined

(* the same for a re-export prefix that is given with the slash at its end *)
C24_WithSlash ==
    (reExportDone /\ reExportPrefix[Len(reExportPrefix)] = "/")
    => reExported = IF FromPrefix THEN Defined(PathInPrefix) ELSE Undefined

----------------------------------------------------------------------------
(* readers of the DebugConfigurationManager's state *)
(* what the getter recentDynamicOptions returns, with the history then *)
RecentReturned ==
    LET m == resolveRecentDynamicOptionsFromData(Manager)
    IN [list |-> Reverse(m.recentDynamicOptionsTracker), recency |-> m.recency]

(* C25: after any assignments to current, and after save and load, the    *)
(* recently used dynamic options list holds at most 3 entries and         *)
(* recentDynamicOptions returns them most recently selected first: they   *)
(* are the options assigned last, the newest first.  When a fourth        *)
(* distinct dynamic option is selected, the entry removed is the least    *)
(* recently selected one: the one assigned just before the three kept.    *)
C25_RecentOptions ==
    LET r == RecentReturned
    IN /\ Len(recentDynamicOptionsTracker) <= MaxRecent
       /\ Len(r.list) <= MaxRecent
       /\ Len(r.list) <= Len(r.recency)
       /\ \A i \in 1..Len(r.list) :
             KeyOf(r.list[i]) = r.recency[Len(r.recency) + 1 - i]
       /\ shifted # NoOption
             => /\ Len(recentDynamicOptionsTracker) = MaxRecent
                /\ Len(recency) > MaxRecent
                /\ KeyOf(shifted) = recency[Len(recency) - MaxRecent]

(* a list restored from the stored data was full, and a fourth option has *)
(* been selected since: the two newer restored entries are kept           *)
C25_Witness ==
    /\ shifted # NoOption
    /\ loadingDataCache.recentDynamicOptions.defined
    /\ Len(loadingDataCache.recentDynamicOptions.value) = MaxRecent
    /\ KeyOf(shifted) = KeyOf(loadingDataCache.recentDynamicOptions.value[1])
    /\ \A i \in 1..2 :
          KeyOf(recentDynamicOptionsTracker[i])
          = KeyOf(loadingDataCache.recentDynamicOptions.value[i + 1])

NoTwoAlike ==
    \A i, j \in 1..Len(recentDynamicOptionsTracker) :
        i # j => ~(/\ recentDynamicOptionsTracker[i].name
                        = recentDynamicOptionsTracker[j].name
                   /\ recentDynamicOptionsTracker[i].providerType
                        = recentDynamicOptionsTracker[j].providerType)

(* C26: the recently used dynamic options list never contains two entries *)
(* with the same configuration name and the same providerType: selecting  *)
(* an option already in the list moves it to the most recent position     *)
(* (it is the newest entry after the operation that found it in the       *)
(* list) instead of adding a second entry.                                *)
C26_NoTwoAlike ==
    /\ NoTwoAlike
    /\ spliced
          => /\ recentDynamicOptionsTracker # <<>>
             /\ KeyOf(recentDynamicOptionsTracker[Len(recentDynamicOptionsTracker)])
                = recency[Len(recency)]
             /\ shifted = NoOption

(* an option that was in the full list has been selected again by the user *)
C26_Witness ==
    /\ spliced
    /\ Len(recentDynamicOptionsTracker) = MaxRecent
    /\ initialCurrentHasChanged
    /\ currentOptions = recentDynamicOptionsTracker[MaxRecent]

(* current becomes the option that the data names *)
Replaced(data) ==
    /\ data.current # NoOption
    /\ currentOptions' # currentOptions
    /\ currentOptions'.name = data.current.name
    /\ currentOptions'.workspaceFolderUri = data.current.workspaceFolderUri
    /\ currentOptions'.providerType = data.current.providerType

(* the part of C27 about the resolution of the recent dynamic options *)
ResolutionKeepsSelection ==
    [][(initialCurrentHasChanged /\ RecentDynamicOptions)
       => ~Replaced(loadingDataCache)]_vars

(* C27: the current configuration of the stored data is restored as the  *)
(* actual current only if the user has not changed the initial one: once *)
(* selectionChanged has been called, no later completion of load or of   *)
(* the resolution of the dynamic options replaces the user's current     *)
(* selection with the stored one.                                        *)
C27_UserSelectionKept ==
    [][/\ (initialCurrentHasChanged /\ Load) => ~Replaced(storage)
       /\ (initialCurrentHasChanged /\ RecentDynamicOptions)
             => ~Replaced(loadingDataCache)]_vars

----------------------------------------------------------------------------
(* a list of splices over the array bef *)
NotEmpty(splice) == ~(splice.deleteCount = 0 /\ splice.toInsert = <<>>)
Within(splice, bef) ==
    /\ splice.start >= 0
    /\ splice.deleteCount >= 0
    /\ splice.start + splice.deleteCount <= Len(bef)
Apart(earlier, later) ==
    /\ earlier.start < later.start
    /\ earlier.start + earlier.deleteCount < later.start

(* C34: the splices returned by sortedDiff are canonical: none is empty,  *)
(* their start indices are strictly increasing, no two of them overlap or *)
(* touch (start + deleteCount of the earlier is less than start of the    *)
(* later), every range lies within before, and identical before and after *)
(* arrays yield an empty result.                                          *)
C34_SplicesCanonical ==
    returned
    => /\ \A k \in 1..Len(result) :
             NotEmpty(result[k]) /\ Within(result[k], before)
       /\ \A k \in 1..(Len(result) - 1) : Apart(result[k], result[k + 1])
       /\ before = after => result = <<>>

(* two splices are returned, the first one merged from a deletion and an *)
(* insertion that touched it                                             *)
C34_Witness ==
    /\ returned
    /\ Len(result) = 2
    /\ result[1].deleteCount > 0
    /\ result[1].toInsert # <<>>
    /\ result[2].start > result[1].start + result[1].deleteCount

----------------------------------------------------------------------------
IsDynamic(option) == option # NoOption /\ option.providerType # absent

(* C32: assigning a non-dynamic option (one without providerType) or   *)
(* undefined to DebugConfigurationManager.current leaves the recently  *)
(* used dynamic options list unchanged in content and order.  Stated   *)
(* for the assignment of selectionChanged, after which nothing else is *)
(* done to the list.                                                   *)
C32_NonDynamicKeepsRecent ==
    [][(/\ assigned' \in {absent, "non-dynamic"}
        /\ loading' = loading)
       => recentDynamicOptionsTracker' = recentDynamicOptionsTracker]_vars

(* with three recent options in the list, the user has selected the *)
(* configuration attach of the workspace folder                     *)
C32_Witness ==
    /\ assigned = "non-dynamic"
    /\ currentOptions = Option("attach", WorkspaceFolderUri, absent)
    /\ initialCurrentHasChanged
    /\ loading
    /\ Len(recentDynamicOptionsTracker) = MaxRecent

(* whether find would return an option for the fields of this one *)
CanBeFound(option) ==
    \/ /\ option.providerType # absent
       /\ dynamicDebugConfigurationsPerType.defined
       /\ \E i \in 1..Len(dynamicDebugConfigurationsPerType.value) :
             /\ dynamicDebugConfigurationsPerType.value[i].type
                   = option.providerType
             /\ InSeq(dynamicDebugConfigurationsPerType.value[i].configurations,
                      option.name)
    \/ /\ option.workspaceFolderUri = WorkspaceFolderUri
       /\ InSeq(Configurations, option.name)

(* C33: assigning undefined to DebugConfigurationManager.current does not *)
(* clear the selection: if the previously current option can still be     *)
(* found it remains current, otherwise current falls back to the first    *)
(* configuration of the preferred model, and onDidChange fires in either  *)
(* case.                                                                  *)
C33_UndefinedKeepsCurrent ==
    [][assigned' = absent
       => /\ onDidChangeFired'
          /\ currentOptions' # NoOption
          /\ currentOptions' =
                IF currentOptions # NoOption /\ CanBeFound(currentOptions)
                THEN currentOptions
                ELSE Option(Configurations[1], WorkspaceFolderUri, absent)]_vars

(* the user has selected an option that find did not resolve while a *)
(* dynamic option was current, and it is current still               *)
C33_Witness ==
    /\ assigned = absent
    /\ initialCurrentHasChanged
    /\ onDidChangeFired
    /\ IsDynamic(currentOptions)
    /\ loading

====
